---- MODULE Spec2Model ----
(***************************************************************************)
(* The TEP dashboard component (src/src/App.jsx and its status/event-log   *)
(* variant src/unnamed/part_000) as a state machine: the React state of    *)
(* the component, the three interval timers its effects arm, the timer     *)
(* callbacks, the click handlers and the teardown.                         *)
(*                                                                         *)
(* Numbers.  Math.random() yields d / RandDen for an integer d in          *)
(* 0 .. RandDen-1.  A sensor's value and risk are stored multiplied by     *)
(* Scale = 2 * RandDen, which makes r * 100, (r - 0.5) * 5 and             *)
(* (r - 0.5) * 3 exact integers.  Time is in milliseconds.                 *)
(*                                                                         *)
(* Draws.  Math.random() is an unknown: every batch of draws (the 156 of   *)
(* one generateTEPData() or of one setSensors updater) is chosen anew,     *)
(* whatever was drawn before.  The batches to choose from are a bounded    *)
(* family (NumBatches of them, the draws of one batch following from its   *)
(* number), and only the first FreeTicks sensor updates choose: the later  *)
(* ones of a long run take the batch of their place in the run.            *)
(***************************************************************************)
EXTENDS Integers, Sequences, FiniteSets

VARIABLES
    variant,          \* "app" (src/src/App.jsx) or "status" (src/unnamed/part_000)
    now,              \* the wall clock, ms since construction
    mounted,          \* the component is mounted
    sensors,          \* useState: the sensor array
    chartData,        \* useState: the trend buffer
    selectedSensors,  \* useState: the selection
    dataLog,          \* useState: the event log (status variant)
    currentTime,      \* useState: the clock display
    uptime,           \* useState: the uptime display (status variant)
    activeNav,        \* useState: the navigation item shown as active
    pending,          \* the state updates timer callbacks have queued for the next render
    timers,           \* the armed intervals, each with its callback's closure
    handles,          \* the interval id each effect's cleanup holds
    rendered,         \* the selection the click handlers of the last render close over
    exiting,          \* the rows and buttons AnimatePresence still shows after their removal
    nextTimerId,      \* the id the next setInterval returns
    clicks,           \* history: the click events so far, oldest first
    tickPoints,       \* history: the chart point each tick produced, oldest first
    logBatches        \* history: the log entries each tick produced, oldest first

vars == <<variant, now, mounted, sensors, chartData, selectedSensors, dataLog,
          currentTime, uptime, activeNav, pending, timers, handles, rendered, exiting,
          nextTimerId, clicks, tickPoints, logBatches>>

\* The React state of the component: what a timer callback or a click can change.
componentState ==
    <<sensors, chartData, selectedSensors, dataLog, currentTime, uptime, activeNav>>

----------------------------------------------------------------------------
\* Program constants.

NumSensors == 52
MaxSelected == 3
ChartKeep == 29
LogCap == 100
LogTop == 5
ShownCount == 15
Period == 1000

\* Bounds of the model.

RandDen == 100         \* Math.random() has RandDen equally spaced outcomes
MaxElapse == 2         \* Spec: time quanta that elapse
MaxElapseLong == 64    \* SpecLong: time quanta that elapse
MaxClicks == 2         \* Spec: click events
MaxClickRank == 1      \* Spec: the user clicks among the first MaxClickRank rows shown
NumBatches == 2        \* the batches of draws a generateTEPData() or an update chooses from
FreeTicks == 2         \* the sensor updates of a run that choose their batch

Variants == {"app", "status"}

\* The ids of navItems.
NavItems == {"dashboard", "analytics", "settings"}

Scale == 2 * RandDen
Quantum == Period \div 2
Full == 100 * Scale

----------------------------------------------------------------------------
\* Helpers over sequences.

Range(s) == {s[i] : i \in 1..Len(s)}

Min(a, b) == IF a < b THEN a ELSE b

Max(a, b) == IF a > b THEN a ELSE b

\* Array.prototype.slice(-n): the last n elements (all of them when shorter).
SliceLast(s, n) == IF Len(s) <= n THEN s ELSE SubSeq(s, Len(s) - n + 1, Len(s))

\* Array.prototype.slice(0, n): the first n elements (all of them when shorter).
SliceFirst(s, n) == IF Len(s) <= n THEN s ELSE SubSeq(s, 1, n)

\* Array.prototype.slice(1).
SliceFrom1(s) == IF Len(s) = 0 THEN s ELSE Tail(s)

\* Array.prototype.includes.
Includes(s, x) == \E i \in 1..Len(s) : s[i] = x

----------------------------------------------------------------------------
\* Math.random().  A batch is the 156 draws of one generateTEPData() or of one
\* setSensors updater, three for each sensor k: for its value, its risk and its
\* status.  The batch number x fixes them.

RandomValue(x, k) == (x + 37 * k) % RandDen

RandomRisk(x, k) == (7 * x + 53 * k) % RandDen

RandomStatus(x, k) == (x + k) % RandDen

\* The i-th batch of the family.
Batch(i) == (57 + 37 * i) % RandDen

\* The batches Math.random() can give a generateTEPData() or an update.  No state
\* is kept: what was drawn does not decide what is drawn next, and the draws of
\* a render's generateTEPData() that useState drops leave no trace.
Batches == {Batch(i) : i \in 1..NumBatches}

\* The batches the update after n earlier ones can draw.
TickBatches(n) == IF n < FreeTicks THEN Batches ELSE {Batch(n)}

----------------------------------------------------------------------------
\* The sensor model.

\* A variant of TypeOf with the first limit off by one.
TypeOfOffByOne(i) ==
    IF i < 13 THEN "temperature"
    ELSE IF i <= 26 THEN "pressure"
    ELSE IF i <= 39 THEN "flow"
    ELSE "composition"

TypeOf(i) ==
    IF i <= 13 THEN "temperature"
    ELSE IF i <= 26 THEN "pressure"
    ELSE IF i <= 39 THEN "flow"
    ELSE "composition"

NameOf(i) == <<"XMEAS_", i>>

Bad(v) == IF v = "app" THEN "warning" ELSE "Critical"

Good(v) == IF v = "app" THEN "normal" ELSE "Normal"

\* A variant of Clamp without the upper limit.
ClampBelowOnly(x) == IF x < 0 THEN 0 ELSE x

\* Math.max(0, Math.min(100, x)) on scaled numbers.
Clamp(x) == Max(0, Min(Full, x))

\* The comparator (a, b) => b.risk - a.risk: negative when a sorts before b.
Compare(a, b) == b.risk - a.risk

\* The stable merge of two sorted arrays: of two elements the comparator calls
\* equal, the one of a comes first.
RECURSIVE Merge(_, _)
Merge(a, b) ==
    IF Len(b) = 0 THEN a
    ELSE IF Len(a) = 0 THEN b
    ELSE IF Len(b) = 1
    THEN LET NotAfter(x) == Compare(x, b[1]) <= 0
             After(x) == Compare(x, b[1]) > 0
         IN SelectSeq(a, NotAfter) \o b \o SelectSeq(a, After)
    ELSE LET half == Len(b) \div 2
             pivot == b[half + 1]
             NotAfter(x) == Compare(x, pivot) <= 0
             After(x) == Compare(x, pivot) > 0
         IN Merge(SelectSeq(a, NotAfter), SubSeq(b, 1, half))
                \o Merge(SelectSeq(a, After), SubSeq(b, half + 1, Len(b)))

\* Array.prototype.sort with that comparator: a stable sort.
RECURSIVE SortByRisk(_)
SortByRisk(s) ==
    IF Len(s) <= 1 THEN s
    ELSE LET half == Len(s) \div 2
         IN Merge(SortByRisk(SubSeq(s, 1, half)),
                  SortByRisk(SubSeq(s, half + 1, Len(s))))

InitialStatus(v, d) == IF 10 * d > 8 * RandDen THEN Bad(v) ELSE Good(v)

generateTEPData(v, x) ==
    SortByRisk([i \in 1..NumSensors |->
        [id |-> i,
         name |-> NameOf(i),
         value |-> (100 * Scale * RandomValue(x, i)) \div RandDen,
         risk |-> (100 * Scale * RandomRisk(x, i)) \div RandDen,
         status |-> InitialStatus(v, RandomStatus(x, i)),
         type |-> TypeOf(i)]])

----------------------------------------------------------------------------
\* The update engine.

\* (Math.random() - 0.5) * 5 and (Math.random() - 0.5) * 3, scaled.
ValueStep(d) == 10 * d - 5 * RandDen

RiskStep(d) == 6 * d - 3 * RandDen

\* The sensors of prev for which s.value > 80 is not decided by the value computed
\* here: the value is 80 and it is a sum of doubles (`summed`: prev has been
\* through an update), which may have come out a little above 80 or not.  A value
\* generateTEPData() gave is r * 100, and a value on a limit is the limit itself.
Near80(prev, summed) ==
    {k \in 1..Len(prev) : summed /\ prev[k].value = 80 * Scale}

\* The new status; `above` is the outcome of s.value > 80.
NextStatus(v, above, d) ==
    IF v = "app"
    THEN IF 10 * d > 9 * RandDen THEN "warning"
         ELSE IF above THEN "warning" ELSE "normal"
    ELSE IF 100 * d > 85 * RandDen THEN "Critical" ELSE "Normal"

\* s.risk + (Math.random() - 0.5) * 3, before the limits are applied.
RawRisk(s, x, k) == s.risk + RiskStep(RandomRisk(x, k))

UpdateSensor(v, s, x, k, above) ==
    [s EXCEPT !.value = Clamp(s.value + ValueStep(RandomValue(x, k))),
              !.risk = Clamp(RawRisk(s, x, k)),
              !.status = NextStatus(v, above, RandomStatus(x, k))]

\* prev.map(...): the updated sensors in the order of prev, the sensors of
\* `above` taking s.value > 80 as true.
Updated(v, prev, x, above) ==
    [k \in 1..Len(prev) |->
        UpdateSensor(v, prev[k], x, k, k \in above \/ prev[k].value > 80 * Scale)]

\* The sensors whose new risk is a limit itself (0 or 100, the sum was beyond
\* it): as doubles these risks are the limit exactly.  Any other risk is a sum of
\* doubles, which may differ from the number computed here in its last digits:
\* it can be a little above or below it, but not beyond a limit.
OnLimit(prev, x) ==
    {prev[k].id : k \in {j \in 1..Len(prev) :
                             RawRisk(prev[j], x, j) < 0 \/ RawRisk(prev[j], x, j) > Full}}

\* The last position of the run of equal risks that begins at position i.
RunEnd(s, i) ==
    CHOOSE e \in i..Len(s) :
        /\ \A k \in i..e : s[k].risk = s[i].risk
        /\ e = Len(s) \/ s[e + 1].risk # s[i].risk

\* The positions from `from` on at which a run of two or more equal risks begins
\* that are not all equal as doubles.
OpenRuns(s, exact, from) ==
    {i \in from..(Len(s) - 1) :
        /\ s[i + 1].risk = s[i].risk
        /\ i = 1 \/ s[i - 1].risk # s[i].risk
        /\ \E k \in i..RunEnd(s, i) : s[k].id \notin exact}

\* The orders the comparator can leave a run i..e in (f[k] is the place in s of
\* the element that comes to place k).  The sort is stable, so risks that are
\* equal as doubles keep their order.  In a run at the limit 0 the sums that came
\* out above 0 are first, in any order, and the rest is 0 and keeps its order; in
\* a run at the limit 100 the risks that are 100 come first and keep their order,
\* and the sums that came out below 100 follow; elsewhere every order can occur.
RunOrders(s, exact, i, e) ==
    LET Sum(k, f) == s[f[k]].id \notin exact
        InOrder(a, b, f) == \A j, k \in a..b : j < k => f[j] < f[k]
    IN {f \in [i..e -> i..e] :
           /\ \A a, b \in i..e : a # b => f[a] # f[b]
           /\ s[i].risk = 0 =>
                 \E m \in i..(e + 1) :
                     (\A k \in i..(m - 1) : Sum(k, f)) /\ InOrder(m, e, f)
           /\ s[i].risk = Full =>
                 \E m \in i..(e + 1) :
                     InOrder(i, m - 1, f) /\ (\A k \in m..e : Sum(k, f))}

Rearranged(s, f) == [k \in 1..Len(s) |-> IF k \in DOMAIN f THEN s[f[k]] ELSE s[k]]

\* The arrays updated.sort((a, b) => b.risk - a.risk) can return, given the
\* stably sorted array s of the risks computed without rounding.
RECURSIVE SortOrders(_, _, _)
SortOrders(s, exact, from) ==
    LET open == OpenRuns(s, exact, from)
    IN IF open = {} THEN {s}
       ELSE LET i == CHOOSE a \in open : \A b \in open : a <= b
                e == RunEnd(s, i)
            IN UNION {SortOrders(Rearranged(s, f), exact, e + 1) :
                          f \in RunOrders(s, exact, i, e)}

\* A variant of UpdateSensors that does not sort the updated array.
UpdateSensorsUnsorted(v, prev, x, summed) ==
    {Updated(v, prev, x, above) : above \in SUBSET Near80(prev, summed)}

\* The setSensors updater: the arrays it can return for the batch of draws x.
UpdateSensors(v, prev, x, summed) ==
    UNION {SortOrders(SortByRisk(Updated(v, prev, x, above)), OnLimit(prev, x), 1) :
               above \in SUBSET Near80(prev, summed)}

----------------------------------------------------------------------------
\* Labels.

\* toLocaleTimeString(): hours, minutes and seconds of the wall clock.
TimeLabel(t) ==
    LET sec == t \div 1000
    IN [h |-> (sec \div 3600) % 24, m |-> (sec % 3600) \div 60, s |-> sec % 60]

\* `${hours}h ${minutes}m` of the seconds since startTime.
UptimeLabel(t) ==
    LET diff == t \div 1000
    IN [hours |-> diff \div 3600, minutes |-> (diff % 3600) \div 60]

\* The number of binary digits of n.
RECURSIVE BitLen(_)
BitLen(n) == IF n = 0 THEN 0 ELSE 1 + BitLen(n \div 2)

\* The binary digits of r / Scale after the binary point, by long division:
\* after `left` more significant digits the double is cut; it is rounded up when
\* the rest is above half a unit of the last digit kept, down when it is below,
\* and to the even digit (previous digit `last`) when it is exactly half.
RECURSIVE RoundedUp(_, _, _)
RoundedUp(r, left, last) ==
    IF left = 0
    THEN r = 0 \/ 2 * r > Scale \/ (2 * r = Scale /\ last = 1)
    ELSE RoundedUp((2 * r) % Scale, left - 1, (2 * r) \div Scale)

\* The digits of a number below 1 up to its first significant digit.
RECURSIVE LeadingZeros(_)
LeadingZeros(r) ==
    IF 2 * r >= Scale THEN RoundedUp((2 * r) % Scale, 52, 1) ELSE LeadingZeros(2 * r)

\* The double nearest to x / Scale (53 significant binary digits) is not below
\* x / Scale.
DoubleNotBelow(x) ==
    IF x % Scale = 0 THEN TRUE
    ELSE IF x < Scale THEN LeadingZeros(x)
    ELSE RoundedUp(x % Scale, 53 - BitLen(x \div Scale), (x \div Scale) % 2)

\* Number.prototype.toFixed(2), in hundredths: the n for which n / 100 is closest
\* to the double; a decimal half way between two n is decided by the side of it
\* the double lies on (the larger n when the double is that decimal exactly).
ToFixed2(x) ==
    LET n == (100 * x) \div Scale
        rest == (100 * x) % Scale
    IN IF 2 * rest < Scale THEN n
       ELSE IF 2 * rest > Scale THEN n + 1
       ELSE IF DoubleNotBelow(x) THEN n + 1 ELSE n

----------------------------------------------------------------------------
\* The trend buffer.

\* The ids of the selection that sensors.find finds.
Found(sens, sel) == {id \in Range(sel) : \E k \in 1..Len(sens) : sens[k].id = id}

\* A variant of FindSensor that takes the id for the position in the array.
FindSensorByIndex(sens, id) == sens[id]

FindSensor(sens, id) == sens[CHOOSE k \in 1..Len(sens) :
                                /\ sens[k].id = id
                                /\ \A j \in 1..(k - 1) : sens[j].id # id]

DataPoint(sens, sel, t) ==
    [time |-> TimeLabel(t),
     sensor |-> [id \in Found(sens, sel) |-> FindSensor(sens, id).value]]

\* A variant of AppendChart that keeps one point too many.
AppendChartKeepsOneMore(prev, point) == SliceLast(prev, ChartKeep + 1) \o <<point>>

AppendChart(prev, point) == SliceLast(prev, ChartKeep) \o <<point>>

----------------------------------------------------------------------------
\* The event log.

LogNo(prev, idx) == Len(prev) + idx + 1

RecentSensors(prev, sens, t) ==
    LET top == SliceFirst(sens, LogTop)
    IN [j \in 1..Len(top) |->
           [no |-> LogNo(prev, j - 1),
            time |-> TimeLabel(t),
            sensorName |-> top[j].name,
            value |-> ToFixed2(top[j].value),
            status |-> top[j].status]]

\* A variant of AppendLog that puts the new entries after the old ones.
AppendLogAtEnd(prev, recent) == SliceFirst(prev \o recent, LogCap)

AppendLog(prev, recent) == SliceFirst(recent \o prev, LogCap)

----------------------------------------------------------------------------
\* Derived KPIs (status variant).

alertCount(sens) == Cardinality({k \in 1..Len(sens) : sens[k].status = "Critical"})

\* A variant of systemStatus with the CRITICAL threshold off by one.
systemStatusOffByOne(sens) ==
    IF alertCount(sens) = 0 THEN "NORMAL"
    ELSE IF alertCount(sens) <= 5 THEN "WARNING"
    ELSE "CRITICAL"

systemStatus(sens) ==
    IF alertCount(sens) = 0 THEN "NORMAL"
    ELSE IF alertCount(sens) < 5 THEN "WARNING"
    ELSE "CRITICAL"

----------------------------------------------------------------------------
\* The selection manager.

Filter(sel, id) == LET Keep(x) == x # id IN SelectSeq(sel, Keep)

\* A variant of Toggle that never evicts.
ToggleNoEvict(sel, id) ==
    IF Includes(sel, id) THEN Filter(sel, id) ELSE Append(sel, id)

Toggle(sel, id) ==
    IF Includes(sel, id) THEN Filter(sel, id)
    ELSE IF Len(sel) < MaxSelected THEN Append(sel, id)
    ELSE Append(SliceFrom1(sel), id)

----------------------------------------------------------------------------
\* Intervals and effects.

NoClosure == [sensors |-> <<>>, selectedSensors |-> <<>>]

\* setInterval(callback, 1000): an armed interval, due after one period.
Interval(id, kind, closure) ==
    [id |-> id, kind |-> kind, remaining |-> Period,
     sensors |-> closure.sensors, selectedSensors |-> closure.selectedSensors]

ClearInterval(ts, id) == {t \in ts : t.id # id}

\* The interval whose callback runs next: it is due, and no interval armed before
\* it is due too (timers of equal timeout fire in the order they were armed).
Due(ts, t) ==
    /\ t \in ts
    /\ t.remaining = 0
    /\ \A u \in ts : u.remaining = 0 => t.id <= u.id

\* An interval that has fired is due again one period later.
Repeat(ts, t) == (ts \ {t}) \cup {[t EXCEPT !.remaining = Period]}

\* A variant of SensorEffect whose previous run is not cleaned up.
SensorEffectNoCleanup(ts, h, id, sens, sel) ==
    ts \cup {Interval(id, "sensor", [sensors |-> sens, selectedSensors |-> sel])}

\* The sensor-update effect after a render in which sensors or selectedSensors
\* changed: the cleanup of the previous run, then the body with the new closure.
SensorEffect(ts, h, id, sens, sel) ==
    ClearInterval(ts, h.sensor)
        \cup {Interval(id, "sensor", [sensors |-> sens, selectedSensors |-> sel])}

\* A variant of Teardown in which the sensor-update effect has no cleanup.
TeardownLeavesSensorInterval(ts, h) ==
    ClearInterval(ClearInterval(ts, h.uptime), h.clock)

\* The cleanups of all effects, run when the component unmounts.
Teardown(ts, h) ==
    ClearInterval(ClearInterval(ClearInterval(ts, h.uptime), h.clock), h.sensor)

\* The state updates queued for the next render, one queue for each state a timer
\* callback sets.  A callback of setInterval runs outside React's event handlers:
\* its set-state calls queue the updates and ask React for a render, and the
\* callback returns; React renders in a task of its own, after which the queues
\* are empty.
NoUpdates == [currentTime |-> <<>>, uptime |-> <<>>, sensors |-> <<>>]

\* The ids of the rows of the ranking: sensors.slice(0, 15).
Shown(sens) == {sens[r].id : r \in 1..Min(ShownCount, Len(sens))}

\* <AnimatePresence> after a render: a row that left the ranking and a button
\* whose id left the selection stay on the page while their exit animation runs
\* (0.15 s), with the props of the last render they were part of, whose click
\* handlers close over that render's selection `sel`; one that is part of the new
\* render is no longer exiting.
Exiting(ex, v, oldSens, newSens, sel, newSel) ==
    {e \in ex : IF e.kind = "row" THEN e.id \notin Shown(newSens)
                ELSE e.id \notin Range(newSel)}
        \cup {[kind |-> "row", id |-> i, selectedSensors |-> sel] :
                  i \in Shown(oldSens) \ Shown(newSens)}
        \cup {[kind |-> "remove", id |-> i, selectedSensors |-> sel] :
                  i \in IF v = "status" THEN Range(sel) \ Range(newSel) ELSE {}}

\* The intervals armed by the first run of the effects, in the order of the code.
MountTimers(v, sens, sel) ==
    LET closure == [sensors |-> sens, selectedSensors |-> sel]
    IN IF v = "status"
       THEN {Interval(1, "uptime", NoClosure), Interval(2, "clock", NoClosure),
             Interval(3, "sensor", closure)}
       ELSE {Interval(1, "clock", NoClosure), Interval(2, "sensor", closure)}

MountHandles(v) ==
    IF v = "status" THEN [uptime |-> 1, clock |-> 2, sensor |-> 3]
    ELSE [uptime |-> 0, clock |-> 1, sensor |-> 2]

----------------------------------------------------------------------------
\* The state after construction: the first render and the first run of the effects.

Init ==
    /\ variant \in Variants
    /\ \E x \in Batches : sensors = generateTEPData(variant, x)
    /\ now = 0
    /\ mounted = TRUE
    /\ chartData = <<>>
    /\ selectedSensors = <<1, 2, 3>>
    /\ dataLog = <<>>
    /\ currentTime = TimeLabel(0)
    /\ uptime = UptimeLabel(0)
    /\ activeNav = "dashboard"
    /\ pending = NoUpdates
    /\ timers = MountTimers(variant, sensors, selectedSensors)
    /\ handles = MountHandles(variant)
    /\ rendered = selectedSensors
    /\ exiting = {}
    /\ nextTimerId = Cardinality(timers) + 1
    /\ clicks = <<>>
    /\ tickPoints = <<>>
    /\ logBatches = <<>>

----------------------------------------------------------------------------
\* Actions.

\* Time passes: no armed interval is overdue, and each comes closer to firing.
\* React has rendered what was queued, and the exit animations (0.15 s) end
\* within the quantum.
Elapse(bound) ==
    /\ timers # {}
    /\ now < bound * Quantum
    /\ \A t \in timers : t.remaining > 0
    /\ pending = NoUpdates
    /\ now' = now + Quantum
    /\ timers' = {[t EXCEPT !.remaining = @ - Quantum] : t \in timers}
    /\ exiting' = {}
    /\ UNCHANGED <<variant, mounted, sensors, chartData, selectedSensors, dataLog,
                   currentTime, uptime, activeNav, pending, handles, rendered,
                   nextTimerId, clicks, tickPoints, logBatches>>

ElapseShort == Elapse(MaxElapse)

ElapseLong == Elapse(MaxElapseLong)

\* The clock interval's callback: setCurrentTime(new Date().toLocaleTimeString()).
ClockTick ==
    \E t \in timers :
        /\ t.kind = "clock"
        /\ Due(timers, t)
        /\ pending' = [pending EXCEPT !.currentTime = Append(@, TimeLabel(now))]
        /\ timers' = Repeat(timers, t)
        /\ UNCHANGED <<variant, now, mounted, sensors, chartData, selectedSensors,
                       dataLog, currentTime, uptime, activeNav, handles, rendered,
                       exiting, nextTimerId, clicks, tickPoints, logBatches>>

\* The uptime interval's callback, updateUptime.  When the label is the one the
\* state holds and nothing is queued, React may drop the update at once instead
\* of queueing it and rendering.
UptimeTick ==
    \E t \in timers :
        /\ t.kind = "uptime"
        /\ Due(timers, t)
        /\ \/ pending' = [pending EXCEPT !.uptime = Append(@, UptimeLabel(now))]
           \/ /\ UptimeLabel(now) = uptime
              /\ pending = NoUpdates
              /\ pending' = pending
        /\ timers' = Repeat(timers, t)
        /\ UNCHANGED <<variant, now, mounted, sensors, chartData, selectedSensors,
                       dataLog, currentTime, uptime, activeNav, handles, rendered,
                       exiting, nextTimerId, clicks, tickPoints, logBatches>>

\* The sensor-update interval's callback: it queues the updaters of setSensors,
\* setChartData and setDataLog, which close over the sensors and the selection
\* of the effect run that armed the interval, and returns.
Tick ==
    \E t \in timers :
        /\ t.kind = "sensor"
        /\ Due(timers, t)
        /\ pending' = [pending EXCEPT !.sensors =
                           Append(@, [sensors |-> t.sensors,
                                      selectedSensors |-> t.selectedSensors])]
        /\ timers' = Repeat(timers, t)
        /\ UNCHANGED <<variant, now, mounted, sensors, chartData, selectedSensors,
                       dataLog, currentTime, uptime, activeNav, handles, rendered,
                       exiting, nextTimerId, clicks, tickPoints, logBatches>>

\* The sensor updates rendered so far.
Ticks == Len(tickPoints)

\* The render of a queued sensor update: the three updaters run on the state as
\* it is now, the setSensors updater with a batch of draws of its own, and the
\* sensor-update effect runs again (sensors is a new array).  The rows that
\* leave the ranking fade out with the handlers of the render before this one.
RenderSensors(c) ==
    LET point == DataPoint(c.sensors, c.selectedSensors, now)
        recent == RecentSensors(dataLog, c.sensors, now)
    IN /\ \E x \in TickBatches(Ticks) :
              sensors' \in UpdateSensors(variant, sensors, x, Ticks >= 1)
       /\ chartData' = AppendChart(chartData, point)
       /\ dataLog' = IF variant = "status" THEN AppendLog(dataLog, recent) ELSE dataLog
       /\ tickPoints' = Append(tickPoints, point)
       /\ logBatches' = IF variant = "status" THEN Append(logBatches, recent)
                        ELSE logBatches
       /\ timers' = SensorEffect(timers, handles, nextTimerId, sensors', selectedSensors)
       /\ handles' = [handles EXCEPT !.sensor = nextTimerId]
       /\ nextTimerId' = nextTimerId + 1
       /\ exiting' = Exiting(exiting, variant, sensors, sensors', rendered, rendered)

\* React renders the queued updates, all in one render, and runs the effects
\* whose dependencies changed.  Every timer callback runs once before time
\* passes, so that no queue holds more than one update.
RenderUpdates ==
    /\ mounted
    /\ pending # NoUpdates
    /\ currentTime' = IF pending.currentTime = <<>> THEN currentTime
                      ELSE pending.currentTime[Len(pending.currentTime)]
    /\ uptime' = IF pending.uptime = <<>> THEN uptime
                 ELSE pending.uptime[Len(pending.uptime)]
    /\ IF pending.sensors = <<>>
       THEN UNCHANGED <<sensors, chartData, dataLog, tickPoints, logBatches, timers,
                        handles, nextTimerId, exiting>>
       ELSE RenderSensors(pending.sensors[1])
    /\ pending' = NoUpdates
    /\ UNCHANGED <<variant, now, mounted, selectedSensors, activeNav, rendered, clicks>>

\* The ids of the rows a user can click: the first rows of the ranking.
Clickable == {sensors[r].id : r \in 1..Min(Min(MaxClickRank, ShownCount), Len(sensors))}

\* The render that follows a click is flushed before the next event is handled:
\* the handlers of the new render close over the new selection.
Render(old, new) == new

\* A variant of Select that also empties the trend buffer.
SelectResetsChart(kind, id, sel) ==
    /\ selectedSensors' = sel
    /\ rendered' = Render(rendered, sel)
    /\ chartData' = <<>>
    /\ timers' = SensorEffect(timers, handles, nextTimerId, sensors, sel)
    /\ handles' = [handles EXCEPT !.sensor = nextTimerId]
    /\ nextTimerId' = nextTimerId + 1
    /\ clicks' = Append(clicks, [kind |-> kind, id |-> id, before |-> selectedSensors])
    /\ exiting' = Exiting(exiting, variant, sensors, sensors, rendered, sel)
    /\ UNCHANGED <<variant, now, mounted, sensors, dataLog, currentTime, uptime,
                   activeNav, pending, tickPoints, logBatches>>

\* A click sets a new selection.  React renders the update of a click at once,
\* without the updates timer callbacks have queued, which stay queued; the
\* sensor-update effect runs again, with the sensors as they are.
Select(kind, id, sel) ==
    /\ selectedSensors' = sel
    /\ rendered' = Render(rendered, sel)
    /\ timers' = SensorEffect(timers, handles, nextTimerId, sensors, sel)
    /\ handles' = [handles EXCEPT !.sensor = nextTimerId]
    /\ nextTimerId' = nextTimerId + 1
    /\ clicks' = Append(clicks, [kind |-> kind, id |-> id, before |-> selectedSensors])
    /\ exiting' = Exiting(exiting, variant, sensors, sensors, rendered, sel)
    /\ UNCHANGED <<variant, now, mounted, sensors, chartData, dataLog, currentTime,
                   uptime, activeNav, pending, tickPoints, logBatches>>

\* A click on a row of the ranking.
handleSensorClick(sensorId) ==
    /\ mounted
    /\ Len(clicks) < MaxClicks
    /\ sensorId \in Clickable
    /\ Select("row", sensorId, Toggle(rendered, sensorId))

\* A click on a selected sensor's remove button (status variant).
RemoveClick(sensorId) ==
    /\ mounted
    /\ variant = "status"
    /\ Len(clicks) < MaxClicks
    /\ Includes(rendered, sensorId)
    /\ Select("remove", sensorId, Filter(rendered, sensorId))

\* A click on a row or a remove button that is still on the page after its
\* removal: its handler computes the selection from the one it closes over.
ExitingClick ==
    \E e \in exiting :
        /\ mounted
        /\ Len(clicks) < MaxClicks
        /\ Select(e.kind, e.id,
                  IF e.kind = "row" THEN Toggle(e.selectedSensors, e.id)
                  ELSE Filter(e.selectedSensors, e.id))

RowClick == \E sensorId \in 1..NumSensors : handleSensorClick(sensorId)

ButtonClick == \E sensorId \in 1..NumSensors : RemoveClick(sensorId)

\* A click on a navigation button that is not the active one: setActiveNav(item.id)
\* and the render of it, in which no effect's dependencies have changed.
NavClick ==
    \E item \in NavItems :
        /\ mounted
        /\ item # activeNav
        /\ activeNav' = item
        /\ UNCHANGED <<variant, now, mounted, sensors, chartData, selectedSensors,
                       dataLog, currentTime, uptime, pending, timers, handles, rendered,
                       exiting, nextTimerId, clicks, tickPoints, logBatches>>

\* The component is torn down: every effect's cleanup runs, and the updates
\* still queued are never rendered.
Unmount ==
    /\ mounted
    /\ mounted' = FALSE
    /\ timers' = Teardown(timers, handles)
    /\ pending' = NoUpdates
    /\ exiting' = {}
    /\ UNCHANGED <<variant, now, sensors, chartData, selectedSensors, dataLog,
                   currentTime, uptime, activeNav, handles, rendered, nextTimerId, clicks,
                   tickPoints, logBatches>>

Next ==
    \/ ElapseShort \/ ClockTick \/ UptimeTick \/ Tick \/ RenderUpdates
    \/ RowClick \/ ButtonClick \/ ExitingClick \/ NavClick \/ Unmount

Spec == Init /\ [][Next]_vars

\* Long runs of the timers alone, past the capacities of the buffers.
NextLong == ElapseLong \/ ClockTick \/ UptimeTick \/ Tick \/ RenderUpdates \/ Unmount

SpecLong == Init /\ [][NextLong]_vars

----------------------------------------------------------------------------
\* Properties.

\* The selection a click left: the one the next click found, or the current one.
AfterClick(i) == IF i = Len(clicks) THEN selectedSensors ELSE clicks[i + 1].before

NoDuplicates(s) == \A i, j \in 1..Len(s) : i # j => s[i] # s[j]

\* C1: every log entry a tick appends has a `no` strictly greater than the `no`
\* of every entry appended by an earlier tick, also after the log is full.
C1_LogNoStrictlyIncreasing ==
    \A i, j \in 1..Len(logBatches) :
        i < j =>
            \A a \in 1..Len(logBatches[i]), b \in 1..Len(logBatches[j]) :
                logBatches[j][b].no > logBatches[i][a].no

\* C2: the selection holds at most 3 ids and holds no id twice.
C2_SelectionBounded ==
    /\ Len(selectedSensors) <= 3
    /\ NoDuplicates(selectedSensors)

\* A click on an unselected id has just found the selection full.
C2_Witness ==
    /\ Len(clicks) >= 1
    /\ Len(clicks[Len(clicks)].before) = 3
    /\ ~Includes(clicks[Len(clicks)].before, clicks[Len(clicks)].id)
    /\ Len(selectedSensors) = 3

\* C3: a row click on an id d outside a full selection [a, b, c] leaves [b, c, d].
C3_FifoEviction ==
    \A i \in 1..Len(clicks) :
        LET c == clicks[i]
        IN (c.kind = "row" /\ Len(c.before) = 3 /\ ~Includes(c.before, c.id))
               => AfterClick(i) = <<c.before[2], c.before[3], c.id>>

\* Two row clicks in a row on the same id x, the first finding x unselected.
ToggledTwice(i) ==
    /\ i + 1 <= Len(clicks)
    /\ clicks[i].kind = "row"
    /\ clicks[i + 1].kind = "row"
    /\ clicks[i].id = clicks[i + 1].id
    /\ ~Includes(clicks[i].before, clicks[i].id)

\* C4: toggling an unselected id x twice in a row restores the selection.
C4_ToggleTwiceRestores ==
    \A i \in 1..Len(clicks) : ToggledTwice(i) => AfterClick(i + 1) = clicks[i].before

\* C5: the trend buffer holds at most 30 points, namely the points of the last
\* min(n, 30) of the n ticks so far in tick order; after 31 ticks it holds 30
\* points and the first is the point of tick 2.
C5_SlidingWindow ==
    /\ Len(chartData) <= 30
    /\ Len(chartData) = Min(Ticks, 30)
    /\ \A i \in 1..Len(chartData) : chartData[i] = tickPoints[Ticks - Len(chartData) + i]
    /\ Ticks = 31 => (Len(chartData) = 30 /\ chartData[1] = tickPoints[2])

\* 31 ticks have run and the point of tick 1 is gone.
C5_Witness ==
    /\ Ticks = 31
    /\ tickPoints[1] # tickPoints[2]
    /\ chartData[1] # tickPoints[1]

\* From any value or risk in [0, 100], whatever number an update draws, the new
\* value or risk is in [0, 100].
EveryDrawInRange ==
    \A v \in 0..(100 * Scale) : \A d \in 0..(RandDen - 1) :
        /\ Clamp(v + ValueStep(d)) \in 0..(100 * Scale)
        /\ Clamp(v + RiskStep(d)) \in 0..(100 * Scale)

\* C6: every sensor's value and risk lie in [0, 100], and whatever number the
\* next tick draws for a sensor, its next value and risk lie in [0, 100] too.
C6_ValueAndRiskInRange ==
    /\ \A k \in 1..Len(sensors) :
          /\ 0 <= sensors[k].value
          /\ sensors[k].value <= 100 * Scale
          /\ 0 <= sensors[k].risk
          /\ sensors[k].risk <= 100 * Scale
    /\ EveryDrawInRange

\* After some ticks, values sit on both limits and a risk on the lower one.
C6_Witness ==
    /\ Ticks >= 1
    /\ \E k \in 1..Len(sensors) : sensors[k].value = 0
    /\ \E k \in 1..Len(sensors) : sensors[k].value = 100 * Scale
    /\ \E k \in 1..Len(sensors) : sensors[k].risk = 0

\* C7: the sensor array is ordered by non-increasing risk.
C7_SortedByRisk ==
    \A k \in 1..(Len(sensors) - 1) : sensors[k].risk >= sensors[k + 1].risk

\* Two ticks have run and the five sensors of highest risk were not the same, or
\* not in the same order, at the two.
C7_Witness ==
    /\ Len(logBatches) >= 2
    /\ \E j \in 1..5 : logBatches[1][j].sensorName # logBatches[2][j].sensorName
    /\ sensors[1].risk > sensors[Len(sensors)].risk

\* C8: there are exactly 52 sensors, their ids are 1..52, each once, and each
\* sensor's name and type are those its id fixes.
C8_SensorIdentity ==
    /\ Len(sensors) = 52
    /\ {sensors[k].id : k \in 1..Len(sensors)} = 1..52
    /\ \A k \in 1..Len(sensors) :
          LET s == sensors[k]
          IN /\ s.name = <<"XMEAS_", s.id>>
             /\ s.id \in 1..13 => s.type = "temperature"
             /\ s.id \in 14..26 => s.type = "pressure"
             /\ s.id \in 27..39 => s.type = "flow"
             /\ s.id \in 40..52 => s.type = "composition"

\* Ticks have run and have moved the sensors out of the order of their ids.
C8_Witness ==
    /\ Ticks >= 2
    /\ \E k \in 1..Len(sensors) : sensors[k].id # k
    /\ \E k \in 1..Len(sensors) : sensors[k].id = 13 /\ sensors[k].type = "temperature"

\* The number of distinct sensors whose status is Critical.
CriticalCount ==
    Cardinality({sensors[k].id : k \in {j \in 1..Len(sensors) : sensors[j].status = "Critical"}})

\* C9: in the status variant the system status is NORMAL when no sensor is
\* Critical, WARNING when 1 to 4 are, CRITICAL when 5 or more are.
C9_SystemStatus ==
    variant = "status" =>
        /\ CriticalCount = 0 => systemStatus(sensors) = "NORMAL"
        /\ (1 <= CriticalCount /\ CriticalCount <= 4) => systemStatus(sensors) = "WARNING"
        /\ CriticalCount >= 5 => systemStatus(sensors) = "CRITICAL"

\* A tick has left exactly 5 sensors Critical.
C9_Witness ==
    /\ variant = "status"
    /\ Ticks >= 1
    /\ CriticalCount = 5
    /\ systemStatus(sensors) = "CRITICAL"

\* C10: once the component is unmounted no interval is armed, and no step changes
\* the component's state or arms an interval.
C10_NoCallbackAfterTeardown ==
    /\ [](~mounted => timers = {})
    /\ [][~mounted => UNCHANGED <<componentState, timers>>]_vars

\* The component was unmounted after ticks and clicks had re-armed the
\* sensor-update interval.
C10_Witness ==
    /\ ~mounted
    /\ Ticks >= 1
    /\ Len(clicks) >= 1
    /\ nextTimerId > 5

\* The tick a log position holds, and the place in that tick's batch, when every
\* tick puts its 5 entries ahead of all older ones.
BatchOf(i) == Len(logBatches) - ((i - 1) \div 5)

PlaceOf(i) == ((i - 1) % 5) + 1

\* C11: the log holds at most 100 entries, 5 for each of the latest ticks, those
\* of a later tick ahead of those of an earlier one; each tick's 5 entries are
\* those of the 5 sensors of highest risk, in that order.
C11_LogPrependsTopFive ==
    /\ [](/\ Len(dataLog) <= 100
          /\ Len(dataLog) = Min(5 * Len(logBatches), 100)
          /\ \A b \in 1..Len(logBatches) : Len(logBatches[b]) = 5
          /\ \A i \in 1..Len(dataLog) : dataLog[i] = logBatches[BatchOf(i)][PlaceOf(i)])
    /\ [][(variant = "status" /\ tickPoints' # tickPoints) =>
            /\ Len(logBatches') = Len(logBatches) + 1
            /\ \A j \in 1..5 :
                  /\ logBatches'[Len(logBatches')][j].sensorName = sensors[j].name
                  /\ logBatches'[Len(logBatches')][j].status = sensors[j].status
                  /\ \A k \in 6..Len(sensors) : sensors[j].risk >= sensors[k].risk
                  /\ dataLog'[j] = logBatches'[Len(logBatches')][j]]_vars

\* The log is full and the entries of the first ticks are gone.
C11_Witness ==
    /\ Len(logBatches) >= 22
    /\ Len(dataLog) = 100
    /\ dataLog[100] = logBatches[Len(logBatches) - 19][5]
    /\ dataLog[100] # logBatches[1][5]

\* C12: in the app variant, after a tick every sensor whose value is above 80
\* has status warning.
C12_WarningAbove80 ==
    (variant = "app" /\ Ticks >= 1) =>
        \A k \in 1..Len(sensors) :
            sensors[k].value > 80 * Scale => sensors[k].status = "warning"

\* The time until the sensor-update interval of the current effect fires.
NextTickIn == (CHOOSE t \in timers : t.id = handles.sensor).remaining

\* C13: a selection click neither delays nor suppresses the next tick: it leaves
\* the time until the next sensor update as it was.
C13_ClicksDoNotDelayTick ==
    [][(mounted /\ clicks' # clicks) => NextTickIn' = NextTickIn]_vars

\* s without its element at position p.
WithoutAt(s, p) == [j \in 1..(Len(s) - 1) |-> IF j < p THEN s[j] ELSE s[j + 1]]

PositionOf(s, x) == CHOOSE p \in 1..Len(s) : s[p] = x

\* What toggle makes of the selection a click found.
Toggled(c) ==
    IF c.id \in Range(c.before) THEN WithoutAt(c.before, PositionOf(c.before, c.id))
    ELSE IF c.kind = "remove" THEN c.before
    ELSE IF Len(c.before) < 3 THEN c.before \o <<c.id>>
    ELSE <<c.before[2], c.before[3], c.id>>

\* C14: the first click finds the initial selection, and every click leaves what
\* toggle makes of the selection the click before it left: no click is lost and
\* none is computed from an older selection.
C14_ClicksApplyInOrder ==
    /\ Len(clicks) >= 1 => clicks[1].before = <<1, 2, 3>>
    /\ \A i \in 1..Len(clicks) : AfterClick(i) = Toggled(clicks[i])
    /\ rendered = selectedSensors

\* The value of the sensor with the given id in the current array.
ValueOf(id) == (CHOOSE r \in Range(sensors) : r.id = id).value

LastPoint == tickPoints[Len(tickPoints)]

\* C15: the chart point a tick appends has a key for exactly the ids selected at
\* that tick, each holding the sensor's value from before that tick's update:
\* the interval's callback queues its update with the selection and the sensors
\* as they are when it runs, and the point appended when the update is rendered
\* has the ids of that selection as keys and holds the values the sensors have
\* before the update.
C15_PointHoldsPreUpdateValues ==
    /\ [][(pending'.sensors # pending.sensors /\ pending'.sensors # <<>>) =>
            /\ pending'.sensors[1].selectedSensors = selectedSensors
            /\ pending'.sensors[1].sensors = sensors]_vars
    /\ [][tickPoints' # tickPoints =>
            LET point == tickPoints'[Len(tickPoints')]
            IN /\ chartData'[Len(chartData')] = point
               /\ DOMAIN point.sensor = Range(pending.sensors[1].selectedSensors)
               /\ \A id \in DOMAIN point.sensor : point.sensor[id] = ValueOf(id)]_vars

\* A tick has run on a selection that a click had changed, and has moved a
\* selected sensor's value away from the one the point recorded.
C15_Witness ==
    /\ Ticks >= 1
    /\ Len(clicks) >= 1
    /\ DOMAIN LastPoint.sensor = Range(selectedSensors)
    /\ DOMAIN LastPoint.sensor # {1, 2, 3}
    /\ \E id \in DOMAIN LastPoint.sensor : LastPoint.sensor[id] # ValueOf(id)

\* C16: a tick changes the sensors, the trend buffer and (status variant) the
\* event log and leaves the selection; a click changes nothing but the selection:
\* it leaves the sensors, the trend buffer and the event log.
C16_FrameOfTickAndClick ==
    [][/\ tickPoints' # tickPoints =>
            /\ selectedSensors' = selectedSensors
            /\ sensors' # sensors
            /\ chartData' # chartData
            /\ variant = "status" => dataLog' # dataLog
       /\ clicks' # clicks =>
            /\ sensors' = sensors
            /\ chartData' = chartData
            /\ dataLog' = dataLog]_vars

\* Clicks and ticks have both run, the clicks with points and entries to keep.
C16_Witness ==
    /\ Ticks >= 1
    /\ Len(dataLog) >= 5
    /\ Len(clicks) >= 2
    /\ Len(clicks[Len(clicks)].before) # Len(selectedSensors)

\* C17: a click on an id of the selection, on its row or on its remove button,
\* removes exactly that id: one id fewer, the others in the order they had.
C17_ClickOnSelectedRemoves ==
    \A i \in 1..Len(clicks) :
        LET c == clicks[i]
        IN Includes(c.before, c.id) =>
              /\ Len(AfterClick(i)) = Len(c.before) - 1
              /\ ~Includes(AfterClick(i), c.id)
              /\ AfterClick(i) = WithoutAt(c.before, PositionOf(c.before, c.id))

\* The lookup a tick makes never misses (the case C18 is about): every armed
\* sensor-update callback, and every one whose update is queued, finds each id of
\* its selection in its sensor array.
LookupNeverMisses ==
    /\ \A t \in timers :
          t.kind = "sensor" =>
              Found(t.sensors, t.selectedSensors) = Range(t.selectedSensors)
    /\ \A j \in 1..Len(pending.sensors) :
          Found(pending.sensors[j].sensors, pending.sensors[j].selectedSensors)
              = Range(pending.sensors[j].selectedSensors)

SensorIntervals == {t \in timers : t.kind = "sensor"}

\* C19: at most one sensor-update interval is armed, exactly one while the
\* component is mounted; so no more ticks have run than periods have elapsed,
\* each with one chart point and (status variant) one batch of 5 log entries.
C19_OneSensorInterval ==
    /\ Cardinality(SensorIntervals) <= 1
    /\ mounted => Cardinality(SensorIntervals) = 1
    /\ Ticks * Period <= now
    /\ Len(logBatches) = IF variant = "status" THEN Ticks ELSE 0
    /\ \A b \in 1..Len(logBatches) : Len(logBatches[b]) = 5

\* Ticks and clicks have re-armed the interval several times.
C19_Witness ==
    /\ mounted
    /\ Ticks >= 1
    /\ Len(clicks) >= 2
    /\ Cardinality(SensorIntervals) = 1
    /\ \A t \in SensorIntervals : t.id = handles.sensor /\ t.id >= 6

====
